---- MODULE Spec2Model ----
(***************************************************************************)
(* State machine of the STREAM connection of ilp-rs                        *)
(* (src/src/stream/connection.rs) together with the two channels that      *)
(* src/src/stream/mod.rs hands to it.                                      *)
(*                                                                         *)
(* The per-stream objects (DataMoneyStream, MoneyStream, DataStream) live  *)
(* in data_money_stream.rs; they are modelled by the operations the        *)
(* connection invokes on them.  Encryption and the condition/fulfillment   *)
(* derivation are abstracted: an ILP packet carries either a STREAM packet *)
(* (its data decrypts) or NoPacket (it does not), and a Prepare carries    *)
(* the flag `fulfillable` (the derived condition equals its condition).    *)
(*                                                                         *)
(* A Rust panic inside a method of Internal unwinds while the mutex guard  *)
(* is held: the effects made so far stay, the mutex is poisoned, and every *)
(* later `lock().unwrap()` panics in turn.                                 *)
(***************************************************************************)
EXTENDS Integers, Sequences, FiniteSets, TLC

(* ------------------------------ bounds --------------------------------- *)
MaxStreamId == 2    \* stream ids the peer names in its frames: 1..MaxStreamId
MaxObjs == 2        \* stream objects ever constructed
MaxSeq == 2         \* try_send runs only while next_packet_sequence <= MaxSeq
MaxMoney == 1       \* money the application ever asks to send, on all streams
MaxData == 1        \* writes of outgoing data the application ever makes
MaxQueue == 1       \* items that reach the incoming channel between two polls
MaxDeliver == 1     \* items the peer ever puts on the incoming channel
WordBits == 4       \* a u64 is modelled with WordBits bits
LongLen == 130      \* bytes of an octet string of the long length form
MaxShares == 3      \* money asked to be sent on one stream, where the
                    \* accounting of one response is checked on its own

VARIABLES
  is_server,        \* Connection::new argument
  sink_close_ends,  \* build-dependent: Sink::close on the sender disconnects
  overflow_checks,  \* build-dependent: u64 arithmetic panics on overflow
                    \* ("on", debug profile) or wraps ("off", release
                    \* profile); "unknown" until the first overflow of the
                    \* run shows which
  internal,         \* the Internal record guarded by the mutex
  objs,             \* heap of DataMoneyStream objects (shared by handles)
  held,             \* objects the application holds a handle of
  outgoing,         \* outgoing channel: [open]; the bridge takes the items
  incoming,         \* incoming channel: [q, ended, closed]; q holds the items
                    \* a poll left behind, the others arrive with the poll
  poisoned,         \* the mutex is poisoned (a method panicked)
  deadlocked,       \* a thread waits for the mutex that it holds itself
  rand_used,        \* request ids drawn so far
  gh,               \* history of the run: the ids create_stream returned, the
                    \* money reservations and their releases, the requests
                    \* submitted and answered, what closed the connection
  codec             \* the packet codec at work: [phase, packet, bytes, result]

vars == <<is_server, sink_close_ends, overflow_checks, internal, objs, held, outgoing,
          incoming, poisoned, deadlocked, rand_used, gh, codec>>

(* ------------------------------ frames --------------------------------- *)
StreamMoney(id, shares) == [t |-> "StreamMoney", id |-> id, n |-> shares]
StreamData(id) == [t |-> "StreamData", id |-> id, n |-> 0]
StreamClose(id) == [t |-> "StreamClose", id |-> id, n |-> 0]
ConnectionClose == [t |-> "ConnectionClose", id |-> 0, n |-> 0]
ConnectionNewAddress == [t |-> "ConnectionNewAddress", id |-> 0, n |-> 0]

StreamPacket(seq, ty, amt, fr) ==
  [sequence |-> seq, ilp_packet_type |-> ty, prepare_amount |-> amt, frames |-> fr]

\* the data of an ILP packet that does not decrypt to a STREAM packet
NoPacket == StreamPacket(0, "None", 0, <<>>)

IlpPrepare(rid, amt, ful, sp) ==
  [kind |-> "Prepare", rid |-> rid, amount |-> amt, fulfillable |-> ful,
   code |-> "", sp |-> sp]
IlpFulfill(rid, sp) ==
  [kind |-> "Fulfill", rid |-> rid, amount |-> 0, fulfillable |-> FALSE,
   code |-> "", sp |-> sp]
IlpReject(rid, code, sp) ==
  [kind |-> "Reject", rid |-> rid, amount |-> 0, fulfillable |-> FALSE,
   code |-> code, sp |-> sp]

HasFrame(fr, ty) == \E k \in 1..Len(fr) : fr[k].t = ty

(* --------------------------- small helpers ----------------------------- *)
Remove(f, k) == [x \in (DOMAIN f) \ {k} |-> f[x]]
Put(f, k, v) == [x \in (DOMAIN f) \cup {k} |-> IF x = k THEN v ELSE f[x]]

\* the orders in which a HashMap may yield the keys S
Orders(S) ==
  {f \in [1..Cardinality(S) -> S] : \A a, b \in 1..Cardinality(S) : a # b => f[a] # f[b]}

(* ----------------------- DataMoneyStream objects ----------------------- *)
DataMoneyStream_new(id) ==
  [id |-> id, send_max |-> 0, pending |-> 0, total_sent |-> 0,
   delivered |-> 0, received |-> 0, st |-> "Open", has_data |-> FALSE,
   data_in |-> 0]

add_to_pending(s, n) == [s EXCEPT !.pending = @ + n]
subtract_from_pending(s, n) == [s EXCEPT !.pending = @ - n]
pending_to_sent(s, n) == [s EXCEPT !.pending = @ - n, !.total_sent = @ + n]
add_delivered(s, n) == [s EXCEPT !.delivered = @ + n]
add_received(s, n) == [s EXCEPT !.received = @ + n]
stream_set_closing(s) == [s EXCEPT !.st = "Closing"]
stream_set_closed(s) == [s EXCEPT !.st = "Closed"]
is_closing(s) == s.st = "Closing"

(* ------------------------------ the world ------------------------------ *)
\* The operations below are functions on a record of the whole state; an
\* action applies one of them to World and commits the result.
\* sent: the items the operation put on the outgoing channel, in order;
\* panic: the operation panicked; err: it returned Err(()); stuck: it waits
\* for ever for the mutex it holds; ret: what a poll returned, got: the
\* stream object of a Ready(Some(stream)); oc: the overflow checks of the
\* build, ovf: a u64 operation overflowed; woke: the operation notified the
\* task that was recorded in recv_task; fx: the frames the operation has
\* applied, one entry per effect, in the order of the effects.
World ==
  [i |-> internal, objs |-> objs, out |-> outgoing, inc |-> incoming,
   rand |-> rand_used, sce |-> sink_close_ends, oc |-> overflow_checks,
   sent |-> <<>>, panic |-> FALSE, err |-> FALSE, stuck |-> deadlocked,
   ovf |-> FALSE, ret |-> "none", got |-> 0, woke |-> FALSE, fx |-> <<>>,
   gh |-> gh]

Panic(w) == [w EXCEPT !.panic = TRUE]

\* the state a call leaves behind: what it returned and emitted is dropped
Returned(w) == [w EXCEPT !.sent = <<>>, !.err = FALSE]

\* u64: the values are 0 .. U64 - 1
U64 == 2 ^ WordBits

\* the builds a run can still turn out to be made with: an operation that
\* may overflow is applied to each of them
Builds(w) ==
  {[w EXCEPT !.oc = b] : b \in IF w.oc = "unknown" THEN {"on", "off"} ELSE {w.oc}}

\* a u64 operation overflowed
Overflowed(w) == [w EXCEPT !.ovf = TRUE]

\* the value of an expression, S = {expression}
The(S) == CHOOSE x \in S : TRUE

\* UnboundedSender::unbounded_send: Ok and queued while the receiver lives
CanSend(w) == w.out.open
unbounded_send(w, msg) == [w EXCEPT !.sent = Append(@, msg)]

(* --------------------------- Connection::new --------------------------- *)
\* rand_u32: the ids drawn are modelled as pairwise distinct (1, 2, ...)
rand_u32(w) == w.rand + 1

\* a send_unfulfillable_prepare that enters the request in pending
send_unfulfillable_prepare_tracked(w, packet) ==
  unbounded_send([w EXCEPT !.rand = @ + 1,
                           !.i.pending_outgoing_packets =
                              Put(@, rand_u32(w), [amount |-> 0, packet |-> packet])],
                 IlpPrepare(rand_u32(w), 0, FALSE, packet))

\* Internal::send_unfulfillable_prepare
send_unfulfillable_prepare(w, packet) ==
  IF ~CanSend(w) THEN Panic(w)
  ELSE unbounded_send([w EXCEPT !.rand = @ + 1],
                      IlpPrepare(rand_u32(w), 0, FALSE, packet))

send_handshake(w) ==
  LET sequence == w.i.next_packet_sequence
      w1 == [w EXCEPT !.i.next_packet_sequence = @ + 1]
  IN send_unfulfillable_prepare(w1,
       StreamPacket(sequence, "Prepare", 0, <<ConnectionNewAddress>>))

Internal_new(server) ==
  [state |-> "Open",
   next_stream_id |-> IF server THEN 2 ELSE 1,
   next_packet_sequence |-> 1,
   streams |-> <<>>,
   closed_streams |-> {},
   pending_outgoing_packets |-> <<>>,
   new_streams |-> <<>>,
   frames_to_resend |-> <<>>,
   recv_task |-> FALSE]

(* ------------------------------ send path ------------------------------ *)
\* Internal::set_closing
set_closing(w) ==
  [w EXCEPT !.i.state = "Closing",
            !.objs = [o \in DOMAIN w.objs |->
                        IF \E id \in DOMAIN w.i.streams : w.i.streams[id] = o
                        THEN stream_set_closing(w.objs[o]) ELSE w.objs[o]]]

\* try_send, the body of the loop over self.streams.values(), for stream id;
\* acc = [w, amount, frames, closed]
send_stream(acc, id) ==
    LET o == acc.w.i.streams[id]
        s == acc.w.objs[o]
        amount_to_send == s.send_max - s.pending - s.total_sent
        sends == amount_to_send > 0
        frames1 == IF sends THEN Append(acc.frames, StreamMoney(id, amount_to_send))
                   ELSE acc.frames
        s1 == IF sends THEN add_to_pending(s, amount_to_send) ELSE s
        gh1 == IF sends
               THEN [acc.w.gh EXCEPT !.resv =
                       Put(@, <<rand_u32(acc.w), Len(frames1)>>,
                           [obj |-> o, shares |-> amount_to_send, n |-> 0, on |-> 0])]
               ELSE acc.w.gh
        frames2 == IF s.has_data THEN Append(frames1, StreamData(id)) ELSE frames1
        s2 == [s1 EXCEPT !.has_data = FALSE]
        closed1 == IF is_closing(s) THEN Append(acc.closed, id) ELSE acc.closed
    IN [w |-> [acc.w EXCEPT !.objs[o] = s2, !.gh = gh1],
        amount |-> IF sends THEN acc.amount + amount_to_send ELSE acc.amount,
        frames |-> frames2, closed |-> closed1]

\* try_send, the loop over self.streams.values(); ord = the ids in iteration
\* order
RECURSIVE send_streams(_, _)
send_streams(acc, ord) ==
  IF ord = <<>> THEN acc
  ELSE The({send_streams(send_stream(a, Head(ord)), Tail(ord)) : a \in {acc}})

\* try_send, the loop over closed_streams; acc = [w, frames]
RECURSIVE send_stream_closes(_, _)
send_stream_closes(acc, ids) ==
  IF ids = <<>> THEN acc
  ELSE The({send_stream_closes(
              [w |-> [a.w EXCEPT !.objs[a.w.i.streams[Head(ids)]] = stream_set_closed(@),
                                 !.i.streams = Remove(@, Head(ids)),
                                 !.i.closed_streams = @ \cup {Head(ids)}],
               frames |-> Append(a.frames, StreamClose(Head(ids)))],
              Tail(ids)) : a \in {acc}})

\* a send_connection_close that leaves the state Closing
send_connection_close_stay(a) ==
  IF a.w.i.state = "Closing"
  THEN [w |-> a.w, frames |-> Append(a.frames, ConnectionClose)]
  ELSE [w |-> a.w, frames |-> a.frames]

\* try_send, the ConnectionClose frame; a = the result of send_streams
send_connection_close(a) ==
  IF a.w.i.state = "Closing"
  THEN [w |-> [a.w EXCEPT !.i.state = "CloseSent"],
        frames |-> Append(a.frames, ConnectionClose)]
  ELSE [w |-> a.w, frames |-> a.frames]

\* a submit_packet that does not advance next_packet_sequence
submit_packet_same_sequence(c, amount) ==
  IF c.frames = <<>> THEN c.w
  ELSE
    LET stream_packet == StreamPacket(c.w.i.next_packet_sequence, "Prepare", 0, c.frames)
        request_id == rand_u32(c.w)
        w2 == [c.w EXCEPT
                 !.rand = @ + 1,
                 !.i.pending_outgoing_packets =
                    Put(@, request_id, [amount |-> amount, packet |-> stream_packet])]
    IN IF CanSend(w2)
       THEN unbounded_send(w2, IlpPrepare(request_id, amount, TRUE, stream_packet))
       ELSE [w2 EXCEPT !.err = TRUE]

\* try_send, from "if frames.is_empty()" on; c = [w, frames]
submit_packet(c, amount) ==
  IF c.frames = <<>> THEN c.w
  ELSE
    LET stream_packet == StreamPacket(c.w.i.next_packet_sequence, "Prepare", 0, c.frames)
        request_id == rand_u32(c.w)
        w2 == [c.w EXCEPT
                 !.i.next_packet_sequence = @ + 1,
                 !.rand = @ + 1,
                 !.i.pending_outgoing_packets =
                    Put(@, request_id, [amount |-> amount, packet |-> stream_packet])]
    IN IF CanSend(w2)
       THEN unbounded_send(w2, IlpPrepare(request_id, amount, TRUE, stream_packet))
       ELSE [w2 EXCEPT !.err = TRUE]

\* try_send past its first check: collect the frames and submit the packet
send_packet(w, ord) ==
  The({The({submit_packet(c, a.amount) :
              c \in {send_stream_closes(send_connection_close(a), a.closed)}}) :
         a \in {send_streams([w |-> w, amount |-> 0, frames |-> <<>>, closed |-> <<>>],
                             ord)}})

\* a try_send that does not look at the state first
try_send_unguarded(w, ord) == send_packet(w, ord)

\* Internal::try_send; ord is the iteration order of self.streams
try_send(w, ord) ==
  IF w.i.state = "Closed" THEN w ELSE send_packet(w, ord)

(* ----------------------------- receive path ---------------------------- *)
\* Internal::try_wake_polling
try_wake_polling(w) ==
  IF w.i.recv_task THEN [w EXCEPT !.i.recv_task = FALSE, !.woke = TRUE] ELSE w

\* Internal::close_now.  Sink::close on the UnboundedSender disconnects the
\* channel in builds where sink_close_ends holds and is a no-op otherwise;
\* it returns Ok in both, so the unwrap never panics.
close_now(w) ==
  try_wake_polling(
    [w EXCEPT !.i.state = "Closed",
              !.objs = [o \in DOMAIN w.objs |->
                          IF \E id \in DOMAIN w.i.streams : w.i.streams[id] = o
                          THEN stream_set_closed(w.objs[o]) ELSE w.objs[o]],
              !.out.open = IF w.sce THEN FALSE ELSE @,
              !.inc.closed = TRUE])

\* Internal::handle_new_stream
handle_new_stream(w, stream_id) ==
  LET is_new == stream_id \notin DOMAIN w.i.streams
      already_closed == stream_id \in w.i.closed_streams
  IN IF is_new /\ ~already_closed
     THEN [w EXCEPT !.objs = Append(@, DataMoneyStream_new(stream_id)),
                    !.i.streams = Put(@, stream_id, Len(w.objs) + 1),
                    !.i.new_streams = Append(@, stream_id)]
     ELSE w

\* the operation has applied this frame
Applied(w, frame) == [w EXCEPT !.fx = Append(@, frame)]

\* handle_incoming_prepare, "Handle new streams"
RECURSIVE handle_new_streams(_, _)
handle_new_streams(w, fr) ==
  IF fr = <<>> THEN w
  ELSE handle_new_streams(
         IF Head(fr).t \in {"StreamMoney", "StreamData"}
         THEN Applied(handle_new_stream(w, Head(fr).id), Head(fr)) ELSE w,
         Tail(fr))

\* handle_incoming_prepare, the fold that counts the money shares
RECURSIVE total_money_shares(_)
total_money_shares(fr) ==
  IF fr = <<>> THEN 0
  ELSE (IF Head(fr).t = "StreamMoney" THEN Head(fr).n ELSE 0) + total_money_shares(Tail(fr))

\* handle_incoming_prepare, "Handle incoming money" (runs when is_fulfillable):
\* indexing self.streams with an absent id panics; shares * amount is a u64
\* product, which panics or wraps when it overflows; dividing by
\* total_money_shares = 0 panics
RECURSIVE handle_incoming_money(_, _, _, _)
handle_incoming_money(w, fr, amount, total) ==
  IF w.panic \/ fr = <<>> THEN w
  ELSE IF Head(fr).t # "StreamMoney" THEN handle_incoming_money(w, Tail(fr), amount, total)
  ELSE IF Head(fr).id \notin DOMAIN w.i.streams THEN Panic(w)
  ELSE IF Head(fr).n * amount >= U64 /\ w.oc # "off" THEN Panic(Overflowed(w))
  ELSE IF total = 0
  THEN Panic(IF Head(fr).n * amount >= U64 THEN Overflowed(w) ELSE w)
  ELSE handle_incoming_money(
         [(IF Head(fr).n * amount >= U64 THEN Overflowed(w) ELSE w)
            EXCEPT !.objs[w.i.streams[Head(fr).id]] =
                      add_received(@, ((Head(fr).n * amount) % U64) \div total),
                   !.fx = Append(@, Head(fr))],
         Tail(fr), amount, total)

\* Internal::handle_incoming_data
RECURSIVE handle_incoming_data(_, _)
handle_incoming_data(w, fr) ==
  IF w.panic \/ fr = <<>> THEN w
  ELSE IF Head(fr).t # "StreamData" THEN handle_incoming_data(w, Tail(fr))
  ELSE IF Head(fr).id \notin DOMAIN w.i.streams THEN Panic(w)
  ELSE handle_incoming_data(
         [w EXCEPT !.objs[w.i.streams[Head(fr).id]].data_in = 1,
                   !.fx = Append(@, Head(fr))], Tail(fr))

\* Internal::handle_stream_closes
RECURSIVE handle_stream_closes(_, _)
handle_stream_closes(w, fr) ==
  IF w.panic \/ fr = <<>> THEN w
  ELSE IF Head(fr).t # "StreamClose" THEN handle_stream_closes(w, Tail(fr))
  ELSE IF Head(fr).id \notin DOMAIN w.i.streams THEN Panic(w)
  ELSE handle_stream_closes(
         [w EXCEPT !.objs[w.i.streams[Head(fr).id]] = stream_set_closed(@),
                   !.fx = Append(@, Head(fr))], Tail(fr))

\* a handle_connection_close that overlooks the ConnectionClose frames
handle_connection_close_skip(w, fr) == w

\* Internal::handle_connection_close
RECURSIVE handle_connection_close(_, _)
handle_connection_close(w, fr) ==
  IF w.panic \/ fr = <<>> THEN w
  ELSE handle_connection_close(
         IF Head(fr).t = "ConnectionClose" THEN Applied(close_now(w), Head(fr)) ELSE w,
         Tail(fr))

\* a handle_incoming_prepare that answers a Prepare it cannot decrypt like
\* one it cannot fulfill
handle_incoming_prepare_f99(w, request_id, prepare) ==
  IF ~CanSend(w) THEN Panic(w)
  ELSE unbounded_send(w,
         IlpReject(request_id, "F99",
                   StreamPacket(prepare.sp.sequence, "Reject", prepare.amount, <<>>)))

\* Internal::handle_incoming_prepare
handle_incoming_prepare(w, request_id, prepare) ==
  IF prepare.sp.ilp_packet_type = "None"
  THEN IF CanSend(w)
       THEN unbounded_send(w, IlpReject(request_id, "F02", NoPacket))
       ELSE [w EXCEPT !.err = TRUE]
  ELSE
    LET fr == prepare.sp.frames
        is_fulfillable == prepare.fulfillable
        w0 == handle_new_streams(w, fr)
        \* the fold is a sum of u64: it panics or wraps when it overflows
        w1 == IF total_money_shares(fr) >= U64 THEN Overflowed(w0) ELSE w0
        w2 == IF w1.ovf /\ w1.oc # "off" THEN Panic(w1)
              ELSE IF is_fulfillable
              THEN handle_incoming_money(w1, fr, prepare.amount,
                                         total_money_shares(fr) % U64)
              ELSE w1
        w3 == handle_incoming_data(w2, fr)
        w4 == handle_stream_closes(w3, fr)
        w5 == handle_connection_close(w4, fr)
        response_packet ==
          StreamPacket(prepare.sp.sequence,
                       IF is_fulfillable THEN "Fulfill" ELSE "Reject",
                       prepare.amount, <<>>)
    IN IF w5.panic THEN w5
       ELSE IF ~CanSend(w5) THEN Panic(w5)
       ELSE unbounded_send(w5,
              IF is_fulfillable THEN IlpFulfill(request_id, response_packet)
              ELSE IlpReject(request_id, "F99", response_packet))

\* handle_fulfill / handle_reject, the validation of the decrypted response
\* against the original packet: NoPacket stands for None
ValidResponse(sp, original_packet, ty) ==
  IF sp.ilp_packet_type = "None" THEN NoPacket
  ELSE IF sp.sequence # original_packet.sequence THEN NoPacket
  ELSE IF sp.ilp_packet_type # ty THEN NoPacket
  ELSE sp

\* handle_fulfill, the loop over the StreamMoney frames of the original
\* packet, from frame k on
RECURSIVE fulfill_money(_, _, _, _, _, _)
fulfill_money(w, fr, k, request_id, total_delivered, original_amount) ==
  IF w.panic \/ k > Len(fr) THEN w
  ELSE IF fr[k].t # "StreamMoney"
  THEN fulfill_money(w, fr, k + 1, request_id, total_delivered, original_amount)
  ELSE IF fr[k].id \notin DOMAIN w.i.streams THEN Panic(w)
  ELSE
    LET o == w.i.streams[fr[k].id]
        shares == fr[k].n
        w1 == [w EXCEPT !.objs[o] = pending_to_sent(@, shares),
                        !.gh.resv[<<request_id, k>>] = [@ EXCEPT !.n = @ + 1, !.on = o]]
        product == total_delivered * shares
        w2 == IF product >= U64 THEN Overflowed(w1) ELSE w1
    IN IF (w2.ovf /\ w2.oc # "off") \/ original_amount = 0 THEN Panic(w2)
       ELSE fulfill_money(
              [w2 EXCEPT !.objs[o] =
                 add_delivered(@, (product % U64) \div original_amount)],
              fr, k + 1, request_id, total_delivered, original_amount)

\* Internal::handle_fulfill
handle_fulfill(w, request_id, fulfill) ==
  IF request_id \notin DOMAIN w.i.pending_outgoing_packets THEN Panic(w)
  ELSE
    LET entry == w.i.pending_outgoing_packets[request_id]
        original_packet == entry.packet
        w1 == [w EXCEPT !.i.pending_outgoing_packets = Remove(@, request_id)]
        response == ValidResponse(fulfill.sp, original_packet, "Fulfill")
        present == response.ilp_packet_type # "None"
        total_delivered == IF present THEN response.prepare_amount ELSE 0
        w2 == fulfill_money(w1, original_packet.frames, 1, request_id,
                            total_delivered, entry.amount)
        w3 == IF present THEN handle_incoming_data(w2, response.frames) ELSE w2
        w4 == IF present THEN handle_connection_close(w3, response.frames) ELSE w3
        we_sent_close_frame == HasFrame(original_packet.frames, "ConnectionClose")
    IN IF w4.panic THEN w4
       ELSE IF we_sent_close_frame THEN close_now(w4)
       ELSE w4

\* handle_reject, "Release pending money", from frame k on
RECURSIVE reject_money(_, _, _, _)
reject_money(w, fr, k, request_id) ==
  IF w.panic \/ k > Len(fr) THEN w
  ELSE IF fr[k].t # "StreamMoney" THEN reject_money(w, fr, k + 1, request_id)
  ELSE IF fr[k].id \notin DOMAIN w.i.streams THEN Panic(w)
  ELSE
    LET o == w.i.streams[fr[k].id]
    IN reject_money(
         [w EXCEPT !.objs[o] = subtract_from_pending(@, fr[k].n),
                   !.gh.resv[<<request_id, k>>] = [@ EXCEPT !.n = @ + 1, !.on = o]],
         fr, k + 1, request_id)

\* handle_reject, "Only resend frames if they didn't get to the receiver":
\* the frames are popped from the back of the original packet
RECURSIVE resend_frames(_, _)
resend_frames(resend, fr) ==
  IF fr = <<>> THEN resend
  ELSE
    LET f == fr[Len(fr)]
    IN resend_frames(
         IF f.t \in {"StreamData", "StreamClose", "ConnectionClose"}
         THEN Append(resend, f) ELSE resend,
         SubSeq(fr, 1, Len(fr) - 1))

\* Internal::handle_reject
handle_reject(w, request_id, reject) ==
  IF request_id \notin DOMAIN w.i.pending_outgoing_packets THEN w
  ELSE
    LET entry == w.i.pending_outgoing_packets[request_id]
        original_packet == entry.packet
        w1 == [w EXCEPT !.i.pending_outgoing_packets = Remove(@, request_id)]
        response == ValidResponse(reject.sp, original_packet, "Reject")
        present == response.ilp_packet_type # "None"
        w2 == reject_money(w1, original_packet.frames, 1, request_id)
        w3 == IF present THEN handle_incoming_data(w2, response.frames) ELSE w2
        w4 == IF present THEN handle_connection_close(w3, response.frames) ELSE w3
    IN IF w4.panic \/ present THEN w4
       ELSE [w4 EXCEPT !.i.frames_to_resend = resend_frames(@, original_packet.frames)]

\* the item carries a STREAM packet that the handler of its kind accepts:
\* it decrypts and, in a Fulfill or Reject, answers a pending request with
\* the sequence of the original packet and the packet type of the answer
AcceptedPacket(w, item) ==
  IF item.kind = "Prepare" THEN item.sp.ilp_packet_type # "None"
  ELSE /\ item.rid \in DOMAIN w.i.pending_outgoing_packets
       /\ ValidResponse(item.sp, w.i.pending_outgoing_packets[item.rid].packet,
                        item.kind).ilp_packet_type # "None"

\* what the run remembers of one handled item: w is the state before, w1 after
Observe(w, item, w1) ==
  [w1.gh EXCEPT
     !.answered = IF item.kind # "Prepare" /\ item.rid \in DOMAIN w.i.pending_outgoing_packets
                  THEN @ \cup {item.rid} ELSE @,
     !.ignored = @ \/ (/\ item.kind = "Reject"
                        /\ item.rid \notin DOMAIN w.i.pending_outgoing_packets),
     !.undecrypted = @ \/ (/\ item.kind = "Prepare" /\ item.fulfillable
                            /\ item.sp = NoPacket /\ ~w1.panic /\ ~w1.err),
     !.closed_by = IF w1.i.state # "Closed" THEN @
                   ELSE IF AcceptedPacket(w, item) /\ HasFrame(item.sp.frames, "ConnectionClose")
                        THEN item.kind ELSE "ack"]

\* try_handle_incoming, the match on the packet polled from the channel
HandleItem(w, item) ==
  CASE item.kind = "Prepare" -> handle_incoming_prepare(w, item.rid, item)
    [] item.kind = "Fulfill" -> handle_fulfill(w, item.rid, item)
    [] OTHER -> handle_reject(w, item.rid, item)

\* Internal::try_handle_incoming
RECURSIVE try_handle_incoming(_)
try_handle_incoming(w) ==
  IF w.i.state = "Closed" THEN w
  ELSE IF w.inc.q # <<>>
  THEN
    LET item == Head(w.inc.q)
        w0 == [w EXCEPT !.inc.q = Tail(@)]
        w1 == HandleItem(w0, item)
        w2 == [w1 EXCEPT !.gh = Observe(w0, item, w1)]
    IN IF w2.panic \/ w2.err THEN w2 ELSE try_handle_incoming(w2)
  ELSE IF w.inc.ended
  THEN [w EXCEPT !.gh.end_seen = TRUE]    \* Ready(None): return Ok(())
  ELSE w                                  \* NotReady: return Ok(())

(* ------------------------------- actions ------------------------------- *)
Commit(w) ==
  /\ internal' = w.i
  /\ objs' = w.objs
  /\ outgoing' = w.out
  /\ incoming' = w.inc
  /\ poisoned' = w.panic
  /\ deadlocked' = w.stuck
  /\ rand_used' = w.rand
  /\ gh' = w.gh
  /\ overflow_checks' = IF w.ovf THEN w.oc ELSE overflow_checks
  /\ UNCHANGED <<is_server, sink_close_ends, codec>>

\* ids that the StreamMoney / StreamData frames of the items would open
Opens(items) ==
  {id \in 1..MaxStreamId :
     /\ id \notin DOMAIN internal.streams
     /\ id \notin internal.closed_streams
     /\ \E k \in 1..Len(items) :
          /\ items[k].kind = "Prepare"
          /\ \E j \in 1..Len(items[k].sp.frames) :
               /\ items[k].sp.frames[j].t \in {"StreamMoney", "StreamData"}
               /\ items[k].sp.frames[j].id = id}

(* ------------------------------ the peer ------------------------------- *)
StreamIds == 1..MaxStreamId

\* the frame lists of the Prepares the peer sends
PeerFrames ==
  {<<>>, <<ConnectionClose>>, <<StreamMoney(1, 1)>>, <<StreamClose(1)>>,
   <<StreamData(1), ConnectionClose>>}
  \cup {<<StreamData(id)>> : id \in StreamIds}

PeerPrepares ==
  {IlpPrepare(0, 0, TRUE, NoPacket),
   IlpPrepare(0, 0, FALSE, StreamPacket(1, "Prepare", 0, <<>>))}
  \cup {IlpPrepare(0, IF HasFrame(fr, "StreamMoney") THEN MaxMoney ELSE 0, TRUE,
                    StreamPacket(1, "Prepare", 0, fr)) : fr \in PeerFrames}

\* the STREAM packets the peer puts in its answer to request rid
PeerResponses(rid, kind) ==
  LET pend == rid \in DOMAIN internal.pending_outgoing_packets
      seq == IF pend THEN internal.pending_outgoing_packets[rid].packet.sequence ELSE 1
      amt == IF pend THEN internal.pending_outgoing_packets[rid].amount ELSE 0
      other == IF kind = "Fulfill" THEN "Reject" ELSE "Fulfill"
  IN {NoPacket,
      StreamPacket(seq, kind, amt, <<>>),
      StreamPacket(seq, kind, 0, <<>>),
      StreamPacket(seq, kind, amt, <<ConnectionClose>>),
      StreamPacket(0, kind, amt, <<ConnectionClose>>),
      StreamPacket(seq, other, amt, <<ConnectionClose>>)}

\* the request ids the peer answers: the pending ones and request 1 (on a
\* client the handshake, which is never pending)
PeerRequestIds == (DOMAIN internal.pending_outgoing_packets) \cup {1}

PeerItems ==
  PeerPrepares
  \cup UNION {{IlpFulfill(rid, sp) : sp \in PeerResponses(rid, "Fulfill")} :
                rid \in PeerRequestIds}
  \cup UNION {{IlpReject(rid, "F99", sp) : sp \in PeerResponses(rid, "Reject")} :
                rid \in PeerRequestIds}

RECURSIVE SeqsUpTo(_, _)
SeqsUpTo(S, n) ==
  IF n = 0 THEN {<<>>}
  ELSE LET shorter == SeqsUpTo(S, n - 1)
       IN shorter \cup {Append(q, x) : q \in shorter, x \in S}

\* what may have reached the incoming channel since the last poll: nothing
\* once the channel is closed or its sender is gone
Batches ==
  IF incoming.closed \/ incoming.ended THEN {<<>>}
  ELSE {b \in SeqsUpTo(PeerItems, MaxQueue) :
          /\ gh.delivered + Len(b) <= MaxDeliver
          /\ Len(objs) + Cardinality(Opens(incoming.q \o b)) <= MaxObjs}


(* ------------------------- the application ----------------------------- *)
\* Connection::create_stream
create_stream(w) ==
  LET id == w.i.next_stream_id
  IN [w EXCEPT !.i.next_stream_id = @ + 1,
               !.objs = Append(@, DataMoneyStream_new(id)),
               !.i.streams = Put(@, id, Len(w.objs) + 1),
               !.gh.allocated = @ \cup {id}]

CreateStream ==
  /\ ~poisoned /\ ~deadlocked
  /\ Len(objs) + Cardinality(Opens(incoming.q)) < MaxObjs
  /\ Commit(create_stream(World))
  /\ held' = held \cup {Len(objs) + 1}

\* Connection::close
Close ==
  /\ ~poisoned /\ ~deadlocked
  /\ Commit([set_closing(World) EXCEPT !.gh.close_called = TRUE])
  /\ UNCHANGED held

\* Connection::try_send, with what the run remembers of the call
SendGhost(w, w1) ==
  LET emitted == Len(w1.sent) > Len(w.sent)
  IN [w1 EXCEPT
        !.gh.submitted = IF emitted THEN @ \cup {rand_u32(w)} ELSE @,
        !.gh.idle = @ \/ w.i.state = "Closed",
        !.gh.emitted = IF emitted THEN Append(@, w1.sent[Len(w1.sent)].sp.sequence) ELSE @,
        !.gh.close_emitted =
           @ \/ (emitted /\ HasFrame(w1.sent[Len(w1.sent)].sp.frames, "ConnectionClose"))]

TrySendFrom(w, ord) == The({SendGhost(w, w1) : w1 \in {try_send(w, ord)}})

TrySend ==
  /\ ~poisoned /\ ~deadlocked
  /\ internal.next_packet_sequence <= MaxSeq
  /\ \E ord \in Orders(DOMAIN internal.streams) :
       \E w \in {TrySendFrom(World, ord)} : Commit(w)
  /\ UNCHANGED held

\* plugin_to_channels, handle_packets: the items that reached the incoming
\* channel since the last poll
Arrive(w, batch) ==
  [w EXCEPT !.inc.q = @ \o batch, !.gh.delivered = @ + Len(batch)]

\* Connection::try_handle_incoming
TryHandleIncoming ==
  /\ ~poisoned /\ ~deadlocked
  /\ \E batch \in Batches : \E w \in Builds(World) :
       Commit([try_handle_incoming(Arrive(w, batch)) EXCEPT
                 !.gh.idle = @ \/ internal.state = "Closed"])
  /\ UNCHANGED held

\* CloseFuture::poll
CloseFuture_poll(w, ord) ==
  LET w1 == try_handle_incoming(w)
  IN IF w1.panic \/ w1.err THEN w1
     ELSE IF w1.i.state = "Closed" THEN w1
     ELSE TrySendFrom(w1, ord)

CloseFuturePoll ==
  /\ ~poisoned /\ ~deadlocked
  /\ gh.close_called
  /\ internal.next_packet_sequence <= MaxSeq
  /\ \E batch \in Batches : \E w \in Builds(World) :
       \E ord \in Orders(DOMAIN try_handle_incoming(Arrive(w, batch)).i.streams) :
         Commit(CloseFuture_poll(Arrive(w, batch), ord))
  /\ UNCHANGED held

\* what Mutex::lock does in a thread that holds the mutex already: it
\* never returns, it blocks for ever or it panics (std leaves open which)
Relock == {"deadlock", "panic"}

\* impl Stream for Connection, poll.  The guard taken at line 121 is alive
\* when is_closed() locks the same mutex at line 127.
Connection_poll(w, relock) ==
  The({IF w0.panic THEN w0
       ELSE IF w0.err THEN [w0 EXCEPT !.ret = "Err"]
       ELSE LET w1 == [w0 EXCEPT !.i.recv_task = TRUE]
            IN IF w1.i.new_streams # <<>>
               THEN LET stream_id == Head(w1.i.new_streams)
                        w2 == [w1 EXCEPT !.i.new_streams = Tail(@)]
                    IN IF stream_id \notin DOMAIN w2.i.streams THEN Panic(w2)
                       ELSE [w2 EXCEPT !.ret = "Some", !.got = w2.i.streams[stream_id]]
               ELSE IF relock = "panic" THEN Panic(w1)
               ELSE [w1 EXCEPT !.stuck = TRUE] : w0 \in {try_handle_incoming(w)}})

Poll ==
  /\ ~poisoned /\ ~deadlocked
  /\ \E batch \in Batches : \E relock \in Relock : \E w0 \in Builds(World) :
       \E w \in {Connection_poll(Arrive(w0, batch), relock)} :
         /\ Commit(w)
         /\ held' = IF w.ret = "Some" THEN held \cup {w.got} ELSE held

RECURSIVE TotalSendMax(_)
TotalSendMax(ss) == IF ss = <<>> THEN 0 ELSE Head(ss).send_max + TotalSendMax(Tail(ss))

\* MoneyStream::send: the application raises send_max of a stream it holds
SendMoney ==
  /\ ~poisoned /\ ~deadlocked
  /\ \E o \in held : \E n \in 1..(MaxMoney - TotalSendMax(objs)) :
        objs' = [objs EXCEPT ![o].send_max = @ + n]
  /\ UNCHANGED <<is_server, sink_close_ends, overflow_checks, internal, held, outgoing, incoming,
                 poisoned, deadlocked, rand_used, gh, codec>>

\* DataStream write: the application buffers outgoing data on a stream
WriteData ==
  /\ ~poisoned /\ ~deadlocked
  /\ gh.writes < MaxData
  /\ \E o \in held : /\ ~objs[o].has_data
                      /\ objs' = [objs EXCEPT ![o].has_data = TRUE]
  /\ gh' = [gh EXCEPT !.writes = @ + 1]
  /\ UNCHANGED <<is_server, sink_close_ends, overflow_checks, internal, held, outgoing, incoming,
                 poisoned, deadlocked, rand_used, codec>>

\* DataMoneyStream::close: the application marks one stream closing
CloseStream ==
  /\ ~poisoned /\ ~deadlocked
  /\ \E o \in held : /\ objs[o].st = "Open"
                      /\ objs' = [objs EXCEPT ![o] = stream_set_closing(@)]
  /\ UNCHANGED <<is_server, sink_close_ends, overflow_checks, internal, held, outgoing, incoming,
                 poisoned, deadlocked, rand_used, gh, codec>>

(* --------------------------- the bridge -------------------------------- *)
\* plugin_to_channels, forward_to_plugin terminates, with Ok once the
\* outgoing channel has ended or with the error of the plugin's sink at any
\* time: the receiver of the outgoing channel is dropped, and the closure
\* given to then() drops exit, the handle that ends the Valved stream
ForwardToPluginEnds ==
  /\ ~incoming.cancelled
  /\ outgoing' = [outgoing EXCEPT !.open = FALSE]
  /\ incoming' = [incoming EXCEPT !.cancelled = TRUE]
  /\ UNCHANGED <<is_server, sink_close_ends, overflow_checks, internal, objs, held,
                 poisoned, deadlocked, rand_used, gh, codec>>

\* plugin_to_channels, handle_packets terminates, because the plugin's
\* stream ended, the Valved stream was cancelled or the receiver is closed:
\* the sender of the incoming channel is dropped
HandlePacketsEnds ==
  /\ ~incoming.ended
  /\ incoming' = [incoming EXCEPT !.ended = TRUE]
  /\ UNCHANGED <<is_server, sink_close_ends, overflow_checks, internal, objs, held, outgoing,
                 poisoned, deadlocked, rand_used, gh, codec>>

(* ------------------------------ packet codec --------------------------- *)
(* The ILP packet codec of src/src/ilp/packet.rs, on sequences of bytes.   *)
(* A String is the sequence of its UTF-8 bytes; the bytes of the inputs    *)
(* are ASCII or 255, a byte that occurs in no UTF-8 encoding.  A u64 is    *)
(* its value; the inputs keep it below 2^31.  put_var_octet_string and     *)
(* read_var_octet_string live in the oer module; they are modelled by the  *)
(* OER length prefix.                                                      *)

Take(bs, n) == SubSeq(bs, 1, n)
Drop(bs, n) == SubSeq(bs, n + 1, Len(bs))
Fill(b, n) == [k \in 1..n |-> b]

\* Result<_, ParseError> of a parser, and a parser that panicked
Ok(v) == [tag |-> "Ok", val |-> v]
Err(e) == [tag |-> "Err", error |-> e]
Panicked == [tag |-> "Panic"]

\* a read from a Cursor: the value and the bytes left, or the error
Read(v, rest) == [ok |-> TRUE, val |-> v, rest |-> rest]
Fail(e) == [ok |-> FALSE, error |-> e]

read_exact(bs, n) ==
  IF Len(bs) < n THEN Fail("Io") ELSE Read(Take(bs, n), Drop(bs, n))

\* the k low bytes of n, most significant first
RECURSIVE be_bytes(_, _)
be_bytes(n, k) ==
  IF k = 0 THEN <<>> ELSE Append(be_bytes(n \div 256, k - 1), n % 256)

\* the unsigned integer whose big-endian bytes are bs
RECURSIVE be_uint(_)
be_uint(bs) ==
  IF bs = <<>> THEN 0
  ELSE be_uint(Take(bs, Len(bs) - 1)) * 256 + bs[Len(bs)]

put_u64_be(n) == be_bytes(n, 8)

read_u64_be(bs) ==
  LET r == read_exact(bs, 8)
  IN IF r.ok THEN Read(be_uint(r.val), r.rest) ELSE r

length_bytes(n) == IF n < 256 THEN 1 ELSE IF n < 65536 THEN 2 ELSE 3

put_var_octet_string(bs) ==
  IF Len(bs) < 128 THEN <<Len(bs)>> \o bs
  ELSE <<128 + length_bytes(Len(bs))>>
         \o be_bytes(Len(bs), length_bytes(Len(bs))) \o bs

read_var_octet_string(bs) ==
  IF bs = <<>> THEN Fail("Io")
  ELSE IF bs[1] < 128 THEN read_exact(Drop(bs, 1), bs[1])
  ELSE LET n == bs[1] - 128
       IN IF n = 0 \/ n > 3 \/ Len(bs) < 1 + n THEN Fail("Io")
          ELSE read_exact(Drop(bs, 1 + n), be_uint(SubSeq(bs, 2, 1 + n)))

\* String::from_utf8 succeeds
ValidUtf8(bs) == \A k \in 1..Len(bs) : bs[k] < 128

\* the decimal digits of n in ASCII, zero-padded to width
RECURSIVE dec_bytes(_, _)
dec_bytes(n, width) ==
  IF width <= 1 /\ n < 10 THEN <<48 + n>>
  ELSE Append(dec_bytes(n \div 10, width - 1), 48 + (n % 10))

RECURSIVE dec_uint(_)
dec_uint(bs) ==
  IF bs = <<>> THEN 0
  ELSE dec_uint(Take(bs, Len(bs) - 1)) * 10 + (bs[Len(bs)] - 48)

\* a DateTime<Utc> of millisecond precision; second 60 is a leap second
DateTime(y, mo, d, h, mi, s, ms) ==
  [year |-> y, month |-> mo, day |-> d, hour |-> h, minute |-> mi,
   second |-> s, milli |-> ms]

IsLeapYear(y) == y % 4 = 0 /\ (y % 100 # 0 \/ y % 400 = 0)

DaysInMonth(y, m) ==
  IF m = 2 THEN (IF IsLeapYear(y) THEN 29 ELSE 28)
  ELSE IF m \in {4, 6, 9, 11} THEN 30 ELSE 31

\* DateTime::format with INTERLEDGER_TIMESTAMP_FORMAT: %Y writes a year
\* outside 0..9999 with a sign before its digits
format_timestamp(t) ==
  (IF t.year >= 0 /\ t.year < 10000 THEN dec_bytes(t.year, 4)
   ELSE IF t.year >= 0 THEN <<43>> \o dec_bytes(t.year, 4)
   ELSE <<45>> \o dec_bytes(0 - t.year, 4))
  \o dec_bytes(t.month, 2) \o dec_bytes(t.day, 2) \o dec_bytes(t.hour, 2)
  \o dec_bytes(t.minute, 2) \o dec_bytes(t.second, 2)
  \o dec_bytes(t.milli, 3)

\* Utc.datetime_from_str of the 17 bytes of the field: a sign or a blank
\* leaves too few characters for the seven items of the format
datetime_from_str(bs) ==
  IF \E k \in 1..Len(bs) : bs[k] \notin 48..57 THEN Fail("Chrono")
  ELSE LET t == DateTime(dec_uint(SubSeq(bs, 1, 4)), dec_uint(SubSeq(bs, 5, 6)),
                         dec_uint(SubSeq(bs, 7, 8)), dec_uint(SubSeq(bs, 9, 10)),
                         dec_uint(SubSeq(bs, 11, 12)), dec_uint(SubSeq(bs, 13, 14)),
                         dec_uint(SubSeq(bs, 15, 17)))
       IN IF /\ t.month \in 1..12
             /\ t.day \in 1..DaysInMonth(t.year, t.month)
             /\ t.hour < 24 /\ t.minute < 60 /\ t.second <= 60
          THEN Read(t, <<>>) ELSE Fail("Chrono")

PacketType_from(type_int) ==
  CASE type_int = 12 -> "IlpPrepare"
    [] type_int = 13 -> "IlpFulfill"
    [] type_int = 14 -> "IlpReject"
    [] OTHER -> "Unknown"

\* `packet_type as u8`
PacketType_as_u8(packet_type) ==
  CASE packet_type = "IlpPrepare" -> 12
    [] packet_type = "IlpFulfill" -> 13
    [] packet_type = "IlpReject" -> 14

serialize_envelope(packet_type, contents) ==
  <<PacketType_as_u8(packet_type)>> \o put_var_octet_string(contents)

deserialize_envelope(bytes) ==
  IF bytes = <<>> THEN Fail("Io")
  ELSE LET contents == read_var_octet_string(Drop(bytes, 1))
       IN IF contents.ok
          THEN Read([packet_type |-> PacketType_from(bytes[1]),
                     contents |-> contents.val], contents.rest)
          ELSE contents

PreparePacket(amount, expires_at, execution_condition, destination, data) ==
  [kind |-> "Prepare", amount |-> amount, expires_at |-> expires_at,
   execution_condition |-> execution_condition, destination |-> destination,
   data |-> data]

FulfillPacket(fulfillment, data) ==
  [kind |-> "Fulfill", fulfillment |-> fulfillment, data |-> data]

RejectPacket(code, message, triggered_by, data) ==
  [kind |-> "Reject", code |-> code, message |-> message,
   triggered_by |-> triggered_by, data |-> data]

IlpPrepare_to_bytes(p) ==
  serialize_envelope("IlpPrepare",
    put_u64_be(p.amount) \o format_timestamp(p.expires_at)
      \o p.execution_condition \o put_var_octet_string(p.destination)
      \o put_var_octet_string(p.data))

IlpPrepare_from_bytes(bytes) ==
  LET env == deserialize_envelope(bytes)
      amount == read_u64_be(env.val.contents)
      expires_at_buf == read_exact(amount.rest, 17)
      expires_at == datetime_from_str(expires_at_buf.val)
      execution_condition == read_exact(expires_at_buf.rest, 32)
      destination == read_var_octet_string(execution_condition.rest)
      data == read_var_octet_string(destination.rest)
  IN IF ~env.ok THEN Err(env.error)
     ELSE IF env.val.packet_type # "IlpPrepare" THEN Err("WrongType")
     ELSE IF ~amount.ok THEN Err(amount.error)
     ELSE IF ~expires_at_buf.ok THEN Err(expires_at_buf.error)
     ELSE IF ~ValidUtf8(expires_at_buf.val) THEN Err("Utf8")
     ELSE IF ~expires_at.ok THEN Err(expires_at.error)
     ELSE IF ~execution_condition.ok THEN Err(execution_condition.error)
     ELSE IF ~destination.ok THEN Err(destination.error)
     ELSE IF ~ValidUtf8(destination.val) THEN Err("InvalidPacket")
     ELSE IF ~data.ok THEN Err(data.error)
     ELSE Ok(PreparePacket(amount.val, expires_at.val, execution_condition.val,
                           destination.val, data.val))

\* `&self.fulfillment[0..32]` needs 32 bytes
IlpFulfill_to_bytes(p) ==
  serialize_envelope("IlpFulfill",
    SubSeq(p.fulfillment, 1, 32) \o put_var_octet_string(p.data))

IlpFulfill_from_bytes(bytes) ==
  LET env == deserialize_envelope(bytes)
      fulfillment == read_exact(env.val.contents, 32)
      data == read_var_octet_string(fulfillment.rest)
  IN IF ~env.ok THEN Err(env.error)
     ELSE IF env.val.packet_type # "IlpFulfill" THEN Err("WrongType")
     ELSE IF ~fulfillment.ok THEN Err(fulfillment.error)
     ELSE IF ~data.ok THEN Err(data.error)
     ELSE Ok(FulfillPacket(fulfillment.val, data.val))

IlpReject_to_bytes(p) ==
  serialize_envelope("IlpReject",
    p.code \o put_var_octet_string(p.triggered_by)
      \o put_var_octet_string(p.message) \o put_var_octet_string(p.data))

IlpReject_from_bytes(bytes) ==
  LET env == deserialize_envelope(bytes)
      code_bytes == read_exact(env.val.contents, 3)
      triggered_by == read_var_octet_string(code_bytes.rest)
      message == read_var_octet_string(triggered_by.rest)
      data == read_var_octet_string(message.rest)
  IN IF ~env.ok THEN Err(env.error)
     ELSE IF env.val.packet_type # "IlpReject" THEN Err("WrongType")
     ELSE IF ~code_bytes.ok THEN Err(code_bytes.error)
     ELSE IF ~ValidUtf8(code_bytes.val) THEN Err("InvalidPacket")
     ELSE IF ~triggered_by.ok THEN Err(triggered_by.error)
     ELSE IF ~ValidUtf8(triggered_by.val) THEN Err("InvalidPacket")
     ELSE IF ~message.ok THEN Err(message.error)
     ELSE IF ~ValidUtf8(message.val) THEN Err("InvalidPacket")
     ELSE IF ~data.ok THEN Err(data.error)
     ELSE Ok(RejectPacket(code_bytes.val, message.val, triggered_by.val,
                          data.val))

\* `bytes[0]` is an index into the slice: it panics on the empty slice
IlpPacket_from_bytes(bytes) ==
  IF bytes = <<>> THEN Panicked
  ELSE CASE PacketType_from(bytes[1]) = "IlpPrepare" -> IlpPrepare_from_bytes(bytes)
         [] PacketType_from(bytes[1]) = "IlpFulfill" -> IlpFulfill_from_bytes(bytes)
         [] PacketType_from(bytes[1]) = "IlpReject" -> IlpReject_from_bytes(bytes)
         [] OTHER -> Err("InvalidPacket")

IlpPacket_to_bytes(p) ==
  CASE p.kind = "Prepare" -> IlpPrepare_to_bytes(p)
    [] p.kind = "Fulfill" -> IlpFulfill_to_bytes(p)
    [] p.kind = "Reject" -> IlpReject_to_bytes(p)

F08 == <<70, 48, 56>>
F99 == <<70, 57, 57>>

None == [tag |-> "None"]
Some(v) == [tag |-> "Some", val |-> v]

MaxPacketAmountDetails(amount_received, max_amount) ==
  [amount_received |-> amount_received, max_amount |-> max_amount]

\* parse_f08_error without the test of the code
parse_f08_error_any_code(reject) ==
  IF Len(reject.data) >= 16
  THEN LET amount_received == read_u64_be(reject.data)
           max_amount == read_u64_be(amount_received.rest)
       IN IF ~amount_received.ok \/ ~max_amount.ok THEN None
          ELSE Some(MaxPacketAmountDetails(amount_received.val, max_amount.val))
  ELSE None

parse_f08_error(reject) ==
  IF reject.code = F08 /\ Len(reject.data) >= 16
  THEN LET amount_received == read_u64_be(reject.data)
           max_amount == read_u64_be(amount_received.rest)
       IN IF ~amount_received.ok \/ ~max_amount.ok THEN None
          ELSE Some(MaxPacketAmountDetails(amount_received.val, max_amount.val))
  ELSE None

\* the codec at rest, in the specifications of the connection
NoIlp == [kind |-> "None"]

CodecIdle ==
  [phase |-> "idle", parser |-> "none", packet |-> NoIlp, bytes |-> <<>>,
   result |-> None]

Timestamps ==
  {DateTime(2018, 6, 7, 20, 48, 42, 483), DateTime(999, 1, 1, 0, 0, 0, 0),
   DateTime(9999, 12, 31, 23, 59, 60, 999), DateTime(10000, 1, 1, 0, 0, 0, 0)}

Amounts == {0, 107, 16777217}

Conditions == {Fill(0, 32), Fill(255, 32)}

Addresses == {<<>>, <<97, 46, 98>>}

Datas == {<<>>, <<1, 255>>, Fill(0, LongLen)}

\* data of a Reject as parse_f08_error takes it: two u64 and what follows
\* them, and data too short for two u64
F08Datas ==
  {put_u64_be(a) \o put_u64_be(m) \o extra :
     a \in {0, 258}, m \in {1, 16777217}, extra \in {<<>>, <<9>>}}
  \cup {Fill(1, 15), put_u64_be(258)}

Prepares ==
  {PreparePacket(a, t, c, d, x) :
     a \in Amounts, t \in Timestamps, c \in Conditions, d \in Addresses,
     x \in Datas}

Fulfills ==
  {FulfillPacket(f, x) :
     f \in Conditions \cup {Fill(1, 31), Fill(1, 33)}, x \in Datas}

Rejects ==
  {RejectPacket(c, m, t, x) :
     c \in {F08, F99, <<70, 48>>}, m \in {<<>>, <<104, 105>>}, t \in Addresses,
     x \in Datas \cup F08Datas}

Packets == Prepares \cup Fulfills \cup Rejects

\* the packet is one the wire format has room for
WellFormed(p) ==
  CASE p.kind = "Prepare" -> Len(p.execution_condition) = 32
    [] p.kind = "Fulfill" -> Len(p.fulfillment) = 32
    [] p.kind = "Reject" -> Len(p.code) = 3

Prefixes(bs) == {Take(bs, n) : n \in 0..(Len(bs) - 1)}

SamplePrepare ==
  PreparePacket(107, DateTime(2018, 6, 7, 20, 48, 42, 483), Fill(0, 32),
                <<97, 46, 98>>, <<1, 255>>)

PrepareContents(expires_at, destination) ==
  put_u64_be(1) \o expires_at \o Fill(0, 32)
    \o put_var_octet_string(destination) \o put_var_octet_string(<<>>)

\* bytes that reach a parser from the wire: truncated packets, unknown type
\* tags, malformed lengths, fields that are no UTF-8 and no timestamp
WireInputs ==
  Prefixes(IlpPrepare_to_bytes(SamplePrepare))
  \cup Prefixes(IlpFulfill_to_bytes(FulfillPacket(Fill(255, 32), <<1, 255>>)))
  \cup Prefixes(IlpReject_to_bytes(RejectPacket(F99, <<104, 105>>,
                                                <<97, 46, 98>>, <<1, 255>>)))
  \cup {<<99>> \o Drop(IlpPrepare_to_bytes(SamplePrepare), 1), <<0, 0>>,
        <<12, 128>>, <<12, 129, 5>>, <<12, 132, 0, 0, 0, 1, 5>>,
        <<13, 2, 1, 2, 3>>}
  \cup {serialize_envelope("IlpPrepare", PrepareContents(t, d)) :
          t \in {Fill(255, 17), Fill(32, 17),
                 format_timestamp(DateTime(2018, 13, 1, 0, 0, 0, 0)),
                 format_timestamp(DateTime(2018, 2, 29, 0, 0, 0, 0)),
                 format_timestamp(DateTime(2018, 6, 7, 20, 48, 42, 483))},
          d \in {<<97>>, <<255>>}}
  \cup {serialize_envelope("IlpReject",
          c \o put_var_octet_string(t) \o put_var_octet_string(m)
            \o put_var_octet_string(<<>>)) :
          c \in {F99, <<70, 255, 57>>}, t \in {<<97>>, <<255>>},
          m \in {<<>>, <<255>>}}

Parsers == {"IlpPacket", "IlpPrepare", "IlpFulfill", "IlpReject"}

from_bytes(parser, bytes) ==
  CASE parser = "IlpPacket" -> IlpPacket_from_bytes(bytes)
    [] parser = "IlpPrepare" -> IlpPrepare_from_bytes(bytes)
    [] parser = "IlpFulfill" -> IlpFulfill_from_bytes(bytes)
    [] parser = "IlpReject" -> IlpReject_from_bytes(bytes)

(* --------------------------- the specification ------------------------- *)
Connection_new(server, sce) ==
  LET w0 == [i |-> Internal_new(server), objs |-> <<>>,
             out |-> [open |-> TRUE],
             inc |-> [q |-> <<>>, ended |-> FALSE, closed |-> FALSE, cancelled |-> FALSE],
             rand |-> 0, sce |-> sce, oc |-> "unknown", sent |-> <<>>, panic |-> FALSE, err |-> FALSE,
             stuck |-> FALSE, ovf |-> FALSE, ret |-> "none", got |-> 0, woke |-> FALSE,
             fx |-> <<>>,
             gh |-> [allocated |-> {}, resv |-> <<>>, answered |-> {},
                     submitted |-> {}, delivered |-> 0, writes |-> 0, close_called |-> FALSE,
                     close_emitted |-> FALSE, closed_by |-> "none", idle |-> FALSE,
                     emitted |-> <<>>, ignored |-> FALSE, undecrypted |-> FALSE,
                     end_seen |-> FALSE]]
      w1 == IF server THEN w0 ELSE send_handshake(w0)
  IN [w1 EXCEPT !.gh.emitted = [k \in 1..Len(w1.sent) |-> w1.sent[k].sp.sequence]]

Init ==
  /\ codec = CodecIdle
  /\ is_server \in BOOLEAN
  /\ sink_close_ends \in BOOLEAN
  /\ overflow_checks = "unknown"
  /\ held = {}
  /\ LET w == Connection_new(is_server, sink_close_ends)
     IN /\ internal = w.i
        /\ objs = w.objs
        /\ outgoing = w.out
        /\ incoming = w.inc
        /\ poisoned = w.panic
        /\ deadlocked = w.stuck
        /\ rand_used = w.rand
        /\ gh = w.gh

\* the connection over a bridge that stays up
Next ==
  \/ CreateStream
  \/ Close
  \/ TrySend
  \/ TryHandleIncoming
  \/ CloseFuturePoll
  \/ SendMoney
  \/ WriteData
  \/ CloseStream

Spec == Init /\ [][Next]_vars

\* the connection over a bridge whose two forwarding tasks may terminate
NextBridge ==
  \/ CreateStream
  \/ Close
  \/ TrySend
  \/ TryHandleIncoming
  \/ CloseFuturePoll
  \/ SendMoney
  \/ CloseStream
  \/ ForwardToPluginEnds
  \/ HandlePacketsEnds

SpecBridge == Init /\ [][NextBridge]_vars

\* The accounting of one response on its own: the connection has just sent
\* one Prepare with the money of two streams, send_max = s1 and s2 (s2 = 0:
\* the second stream sends nothing), the frames in iteration order ord
FulfillSetup(server, sce, s1, s2, ord) ==
  LET w0 == Connection_new(server, sce)
      w1 == create_stream(create_stream(w0))
      w2 == [w1 EXCEPT !.objs[1].send_max = s1, !.objs[2].send_max = s2]
  IN Returned(TrySendFrom([w2 EXCEPT !.sent = <<>>], ord))

InitFulfill ==
  /\ codec = CodecIdle
  /\ is_server \in BOOLEAN
  /\ sink_close_ends \in BOOLEAN
  /\ overflow_checks = "unknown"
  /\ held = {1, 2}
  /\ \E s1 \in 1..MaxShares, s2 \in 0..MaxShares :
       \E ord \in Orders(DOMAIN create_stream(create_stream(
                      Connection_new(is_server, sink_close_ends))).i.streams) :
         LET w == FulfillSetup(is_server, sink_close_ends, s1, s2, ord)
         IN /\ internal = w.i
            /\ objs = w.objs
            /\ outgoing = w.out
            /\ incoming = w.inc
            /\ poisoned = w.panic
            /\ deadlocked = w.stuck
            /\ rand_used = w.rand
            /\ gh = w.gh

\* the STREAM packets a peer may put in the Fulfill of request rid: its
\* prepare_amount is any u64
FulfillResponses(rid) ==
  LET seq == internal.pending_outgoing_packets[rid].packet.sequence
  IN {NoPacket}
     \cup {StreamPacket(seq, "Fulfill", P, <<>>) : P \in 0..(U64 - 1)}
     \cup {StreamPacket(seq + 1, "Fulfill", U64 - 1, <<>>),
           StreamPacket(seq, "Reject", U64 - 1, <<>>)}

\* try_handle_incoming finds the Fulfill of a pending request
FulfillArrives ==
  /\ ~poisoned /\ ~deadlocked
  /\ \E rid \in DOMAIN internal.pending_outgoing_packets :
       \E sp \in FulfillResponses(rid) : \E w \in Builds(World) :
         Commit(try_handle_incoming(Arrive(w, <<IlpFulfill(rid, sp)>>)))
  /\ UNCHANGED held

NextFulfill == FulfillArrives

SpecFulfill == InitFulfill /\ [][NextFulfill]_vars

\* the connection whose application polls it for new incoming streams
NextPoll ==
  \/ CreateStream
  \/ Close
  \/ TrySend
  \/ TryHandleIncoming
  \/ Poll
  \/ CloseStream

SpecPoll == Init /\ [][NextPoll]_vars

\* the close handshake with a silent peer, under a send driver that keeps
\* being scheduled
NextClose ==
  \/ CreateStream
  \/ Close
  \/ TrySend
  \/ SendMoney
  \/ CloseStream
  \/ ForwardToPluginEnds

SpecClose == Init /\ [][NextClose]_vars /\ WF_vars(TrySend)

\* The shutdown of the bridge.  The task of handle_packets is woken when the
\* Valved stream is cancelled, and the task that polled the incoming
\* channel is woken when its sender is dropped.
NextShutdown ==
  \/ Close
  \/ TrySend
  \/ TryHandleIncoming
  \/ ForwardToPluginEnds
  \/ HandlePacketsEnds

SpecShutdown ==
  /\ Init /\ [][NextShutdown]_vars
  /\ WF_vars(incoming.cancelled /\ HandlePacketsEnds)
  /\ WF_vars(incoming.ended /\ TryHandleIncoming)

\* a packet to encode or to take apart, or bytes to decode
InitCodec ==
  /\ is_server = FALSE
  /\ sink_close_ends = FALSE
  /\ overflow_checks = "unknown"
  /\ held = {}
  /\ LET w == Connection_new(is_server, sink_close_ends)
     IN /\ internal = w.i
        /\ objs = w.objs
        /\ outgoing = w.out
        /\ incoming = w.inc
        /\ poisoned = w.panic
        /\ deadlocked = w.stuck
        /\ rand_used = w.rand
        /\ gh = w.gh
  /\ \/ \E p \in Packets : codec = [CodecIdle EXCEPT !.phase = "packet", !.packet = p]
     \/ \E bs \in WireInputs : codec = [CodecIdle EXCEPT !.phase = "bytes", !.bytes = bs]

\* IlpPacket::to_bytes
ToBytes ==
  /\ codec.phase = "packet"
  /\ IF codec.packet.kind = "Fulfill" /\ Len(codec.packet.fulfillment) < 32
     THEN codec' = [codec EXCEPT !.phase = "panicked", !.result = Panicked]
     ELSE codec' = [codec EXCEPT !.phase = "bytes",
                                 !.bytes = IlpPacket_to_bytes(codec.packet)]
  /\ UNCHANGED <<is_server, sink_close_ends, overflow_checks, internal, objs, held,
                 outgoing, incoming, poisoned, deadlocked, rand_used, gh>>

\* IlpPacket::from_bytes, or the from_bytes of one variant
FromBytes ==
  /\ codec.phase = "bytes"
  /\ \E parser \in Parsers :
       codec' = [codec EXCEPT !.phase = "decoded", !.parser = parser,
                              !.result = from_bytes(parser, codec.bytes)]
  /\ UNCHANGED <<is_server, sink_close_ends, overflow_checks, internal, objs, held,
                 outgoing, incoming, poisoned, deadlocked, rand_used, gh>>

ParseF08Error ==
  /\ codec.phase = "packet"
  /\ codec.packet.kind = "Reject"
  /\ codec' = [codec EXCEPT !.phase = "f08",
                            !.result = parse_f08_error(codec.packet)]
  /\ UNCHANGED <<is_server, sink_close_ends, overflow_checks, internal, objs, held,
                 outgoing, incoming, poisoned, deadlocked, rand_used, gh>>

NextCodec ==
  \/ ToBytes
  \/ FromBytes
  \/ ParseF08Error

SpecCodec == InitCodec /\ [][NextCodec]_vars

\* The distribution of the money of one incoming Prepare on its own: the
\* shares of its one or two StreamMoney frames and its amount are any u64
MoneyFrames ==
  {<<StreamMoney(1, s1)>> : s1 \in 0..(U64 - 1)}
  \cup {<<StreamMoney(1, s1), StreamMoney(2, s2)>> :
          s1 \in 0..(U64 - 1), s2 \in 0..(U64 - 1)}

MoneyPrepares ==
  {IlpPrepare(0, amt, ful, StreamPacket(1, "Prepare", 0, fr)) :
     amt \in 0..(U64 - 1), ful \in BOOLEAN, fr \in MoneyFrames}

\* try_handle_incoming finds a Prepare with money
MoneyArrives ==
  /\ ~poisoned /\ ~deadlocked
  /\ gh.delivered < MaxDeliver
  /\ \E prepare \in MoneyPrepares : \E w0 \in Builds(World) :
       \E w \in {try_handle_incoming(Arrive(w0, <<prepare>>))} : Commit(w)
  /\ UNCHANGED held

NextMoney == MoneyArrives

SpecMoney == Init /\ [][NextMoney]_vars

(* ------------------------------ properties ----------------------------- *)
\* money a stream still has to send
Unsent(s) == s.send_max - s.pending - s.total_sent

IsPrefix(a, b) == Len(a) <= Len(b) /\ SubSeq(b, 1, Len(a)) = a

\* the operation can run: the mutex is neither poisoned nor held for ever
Live == ~poisoned /\ ~deadlocked

\* C1: every id create_stream returns is odd on a client and even on a server
ParityRule ==
  \A id \in gh.allocated : id % 2 = (IF is_server THEN 0 ELSE 1)

\* C2: no stream id is in both streams and closed_streams, and the union of
\* the two sets never loses an id
StreamsDisjointAndGrowing ==
  /\ [](DOMAIN internal.streams \cap internal.closed_streams = {})
  /\ [][(DOMAIN internal.streams \cup internal.closed_streams)
          \subseteq (DOMAIN internal'.streams \cup internal'.closed_streams)]_vars

\* C3: once the response to a request has been handled, every money
\* reservation made for that request has been released exactly once, on the
\* stream object it was made on
ReservationsReleasedOnce ==
  \A key \in DOMAIN gh.resv :
    key[1] \in gh.answered =>
      gh.resv[key].n = 1 /\ gh.resv[key].on = gh.resv[key].obj

\* C4: pending holds exactly the request ids of the Prepares that try_send
\* submitted to the outgoing channel and that have not been answered
PendingIsSubmittedUnanswered ==
  DOMAIN internal.pending_outgoing_packets = gh.submitted \ gh.answered

\* C5: after close(), with sequence numbers left to send, eventually a packet
\* with a ConnectionClose frame has been emitted or the state is Closed (a
\* connection that is Closing again after the last sequence number of the
\* model was used is left out)
CloseLeadsToCloseFrameOrClosed ==
  (internal.state = "Closing" /\ internal.next_packet_sequence <= MaxSeq)
    ~> \/ gh.close_emitted
       \/ internal.state = "Closed"
       \/ internal.state = "Closing" /\ internal.next_packet_sequence > MaxSeq

\* C6: in state CloseSent, handling the Fulfill or the Reject of the request
\* whose packet carried the ConnectionClose leaves the state Closed
CloseAckCloses ==
  \A item \in PeerItems :
    (/\ Live /\ internal.state = "CloseSent"
     /\ item.kind \in {"Fulfill", "Reject"}
     /\ item.rid \in DOMAIN internal.pending_outgoing_packets
     /\ HasFrame(internal.pending_outgoing_packets[item.rid].packet.frames,
                 "ConnectionClose"))
    => HandleItem(World, item).i.state = "Closed"

ClosedIsInert ==
  (Live /\ internal.state = "Closed") =>
    /\ \A ord \in Orders(DOMAIN internal.streams) : try_send(World, ord) = World
    /\ \A item \in PeerItems :
         LET w == [World EXCEPT !.inc.q = Append(@, item)]
         IN try_handle_incoming(w) = w

\* C8 witness: a driver ran on a Closed connection one of whose streams has
\* money to send
ClosedDriverRan ==
  /\ internal.state = "Closed" /\ gh.idle
  /\ \E id \in DOMAIN internal.streams : Unsent(objs[internal.streams[id]]) > 0

\* C9: a try_send that finds the outgoing channel closed, and a
\* try_handle_incoming that finds the incoming channel ended, leave the
\* state Closed
ChannelClosureCloses ==
  (Live /\ internal.state # "Closed") =>
    /\ \A ord \in Orders(DOMAIN internal.streams) :
         try_send(World, ord).err => try_send(World, ord).i.state = "Closed"
    /\ (incoming.ended /\ incoming.q = <<>>) =>
         try_handle_incoming(World).i.state = "Closed"

\* C10: a packet that try_send emits while frames_to_resend is not empty
\* starts with the frames of frames_to_resend
ResendAtFront ==
  (Live /\ internal.frames_to_resend # <<>>) =>
    \A ord \in Orders(DOMAIN internal.streams) :
      LET w1 == try_send(World, ord)
      IN w1.sent # <<>> => IsPrefix(internal.frames_to_resend, w1.sent[1].sp.frames)

\* C11 as stated: the sequence numbers of the Prepares emitted so far are
\* 1, 2, ... in emission order, and every sequence number below
\* next_packet_sequence is the one of an emitted packet
SequenceConsumedOnlyByEmission ==
  gh.emitted = [k \in 1..(internal.next_packet_sequence - 1) |-> k]

\* C11 as amended: the emitted sequence numbers are 1, 2, ... in emission
\* order and lie below next_packet_sequence; none is skipped while the
\* outgoing channel is open
SequenceStrictlyIncreasing ==
  /\ \A k \in 1..Len(gh.emitted) : gh.emitted[k] = k
  /\ Len(gh.emitted) < internal.next_packet_sequence
  /\ outgoing.open => Len(gh.emitted) = internal.next_packet_sequence - 1

\* C11 witness: two packets were emitted
TwoPacketsEmitted == Len(gh.emitted) >= 2

\* C12: a try_send emits at most one Prepare, and a second try_send right
\* after it emits nothing and changes nothing, whatever the iteration
\* orders of the two calls
TrySendIdempotent ==
  Live =>
    \A ord \in Orders(DOMAIN internal.streams) :
      LET w1 == try_send(World, ord)
      IN /\ Len(w1.sent) <= 1
         /\ \A ord2 \in Orders(DOMAIN w1.i.streams) :
              try_send(Returned(w1), ord2) = Returned(w1)

\* C12 witness: a try_send has reserved money on a stream and a second
\* try_send can follow
TrySendReservedMoney ==
  /\ Live /\ gh.emitted # <<>>
  /\ \E id \in DOMAIN internal.streams : objs[internal.streams[id]].pending > 0

\* C13: on a Closed connection with an empty new-stream queue, the poll for
\* new incoming streams returns Ready(None)
PollOnClosedReturnsEnd ==
  (Live /\ internal.state = "Closed" /\ internal.new_streams = <<>>) =>
    \A relock \in Relock : Connection_poll(World, relock).ret = "None"

\* C14: handling the Fulfill of a pending Prepare of amount A > 0 moves, for
\* every StreamMoney{shares} frame of the original packet, shares from
\* pending to total_sent on that stream and adds floor(P * shares / A) to
\* delivered, P being the prepare_amount of a matching response and 0
\* without one
FulfillAccounting ==
  Live =>
    \A rid \in DOMAIN internal.pending_outgoing_packets :
      \A sp \in FulfillResponses(rid) : \A w \in Builds(World) :
        LET entry == internal.pending_outgoing_packets[rid]
            fr == entry.packet.frames
            A == entry.amount
            match == ValidResponse(sp, entry.packet, "Fulfill")
            P == IF match.ilp_packet_type = "None" THEN 0 ELSE match.prepare_amount
            w1 == handle_fulfill(w, rid, IlpFulfill(rid, sp))
        IN A > 0 =>
             \A k \in 1..Len(fr) :
               fr[k].t = "StreamMoney" =>
                 /\ fr[k].id \in DOMAIN internal.streams
                 /\ LET o == internal.streams[fr[k].id]
                    IN /\ w1.objs[o].total_sent = objs[o].total_sent + fr[k].n
                       /\ w1.objs[o].pending = objs[o].pending - fr[k].n
                       /\ w1.objs[o].delivered =
                            objs[o].delivered + ((P * fr[k].n) \div A)

\* the request id of the client's handshake: the first id drawn
HandshakeId == 1

\* C15: Connection::new emits, on a client, one Prepare of amount 0 whose
\* STREAM packet has sequence 1 and the single frame ConnectionNewAddress,
\* and nothing on a server; the handshake request is never in pending, and
\* handling a Reject for it changes nothing
HandshakeUntrackedAndIgnored ==
  /\ \A server, sce \in BOOLEAN :
       LET w == Connection_new(server, sce)
       IN /\ w.sent = IF server THEN <<>>
                      ELSE <<IlpPrepare(HandshakeId, 0, FALSE,
                               StreamPacket(1, "Prepare", 0, <<ConnectionNewAddress>>))>>
          /\ w.i.pending_outgoing_packets = <<>>
          /\ ~w.panic
  /\ ~is_server =>
       /\ gh.emitted # <<>> /\ gh.emitted[1] = 1
       /\ HandshakeId \notin DOMAIN internal.pending_outgoing_packets
       /\ Live =>
            \A sp \in PeerResponses(HandshakeId, "Reject") :
              handle_reject(World, HandshakeId, IlpReject(HandshakeId, "F99", sp)) = World

\* C15 witness: a client has handled the Reject of its handshake and has
\* sent a tracked Prepare as well
HandshakeRejectHandled ==
  ~is_server /\ gh.ignored /\ internal.pending_outgoing_packets # <<>>

\* C16: decoding the bytes that encoding a well-formed packet yields gives
\* the packet again, and the first byte of the encoding is 12 for a Prepare,
\* 13 for a Fulfill and 14 for a Reject
RoundTrip ==
  /\ (codec.phase \in {"bytes", "decoded"} /\ codec.packet # NoIlp
        /\ WellFormed(codec.packet))
       => codec.bytes[1] = (CASE codec.packet.kind = "Prepare" -> 12
                              [] codec.packet.kind = "Fulfill" -> 13
                              [] codec.packet.kind = "Reject" -> 14)
  /\ (codec.phase = "decoded" /\ codec.parser = "IlpPacket"
        /\ codec.packet # NoIlp /\ WellFormed(codec.packet))
       => codec.result = Ok(codec.packet)

\* C16, years of four digits: the same for the packets whose expiry has a
\* year in 0..9999
RoundTripFourDigitYear ==
  (codec.packet # NoIlp /\ codec.packet.kind = "Prepare"
     => codec.packet.expires_at.year \in 0..9999)
  => RoundTrip

\* C17: a parser given any bytes returns a packet or a ParseError, which is
\* InvalidPacket for an unknown type tag and WrongType when the parser of a
\* variant finds the envelope of another variant; it does not panic
DecodeNeverPanics ==
  codec.phase = "decoded" =>
    /\ codec.result.tag \in {"Ok", "Err"}
    /\ (codec.parser = "IlpPacket" /\ codec.bytes # <<>>
          /\ PacketType_from(codec.bytes[1]) = "Unknown")
         => codec.result = Err("InvalidPacket")
    /\ (codec.parser # "IlpPacket" /\ deserialize_envelope(codec.bytes).ok
          /\ deserialize_envelope(codec.bytes).val.packet_type
               # codec.parser)
         => codec.result = Err("WrongType")

\* C18: parse_f08_error returns Some exactly when the code of the Reject is
\* F08 and its data has 16 bytes or more; the two amounts are then the u64
\* whose big-endian bytes are the first eight and the next eight bytes of the
\* data
F08Details ==
  codec.phase = "f08" =>
    /\ codec.result.tag = "Some"
         <=> (codec.packet.code = F08 /\ Len(codec.packet.data) >= 16)
    /\ codec.result.tag = "Some" =>
         /\ put_u64_be(codec.result.val.amount_received)
              = SubSeq(codec.packet.data, 1, 8)
         /\ put_u64_be(codec.result.val.max_amount)
              = SubSeq(codec.packet.data, 9, 16)

\* C18 witness: parse_f08_error took two different amounts of more than one
\* byte from data of more than 16 bytes
F08DetailsOfLongData ==
  /\ codec.phase = "f08"
  /\ codec.result.tag = "Some"
  /\ Len(codec.packet.data) > 16
  /\ codec.result.val.amount_received = 258
  /\ codec.result.val.max_amount = 16777217

\* C19: handling a Prepare with a StreamMoney or StreamData frame for a
\* stream id that is not in streams and has the parity of the ids this
\* endpoint allocates (odd on a client, even on a server) puts no such stream
\* in streams and does not push the id onto new_streams
NoIncomingStreamOfOwnParity ==
  (Live /\ internal.state # "Closed") =>
    \A item \in PeerPrepares : \A w \in Builds(World) : \A id \in StreamIds :
      (/\ (id % 2 = 0) = is_server
       /\ id \notin DOMAIN internal.streams
       /\ \E k \in 1..Len(item.sp.frames) :
            /\ item.sp.frames[k].t \in {"StreamMoney", "StreamData"}
            /\ item.sp.frames[k].id = id)
      => LET w1 == HandleItem(w, item)
         IN /\ id \notin DOMAIN w1.i.streams
            /\ \A k \in 1..Len(w1.i.new_streams) : w1.i.new_streams[k] # id

\* C20: handling a Fulfill or a Reject whose request id is not in
\* pending_outgoing_packets returns normally and leaves the connection and
\* every stream as they were
UnknownResponseIgnored ==
  (Live /\ internal.state # "Closed") =>
    \A item \in PeerItems : \A w \in Builds(World) :
      (/\ item.kind \in {"Fulfill", "Reject"}
       /\ item.rid \notin DOMAIN internal.pending_outgoing_packets)
      => LET w1 == HandleItem(w, item)
         IN /\ ~w1.panic /\ ~w1.err
            /\ w1.i = internal /\ w1.objs = objs
            /\ w1.out = outgoing /\ w1.sent = w.sent

\* C20, the Reject: the same for a Reject alone
UnknownRejectIgnored ==
  (Live /\ internal.state # "Closed") =>
    \A item \in PeerItems : \A w \in Builds(World) :
      (/\ item.kind = "Reject"
       /\ item.rid \notin DOMAIN internal.pending_outgoing_packets)
      => LET w1 == HandleItem(w, item)
         IN /\ ~w1.panic /\ ~w1.err
            /\ w1.i = internal /\ w1.objs = objs
            /\ w1.out = outgoing /\ w1.sent = w.sent

\* the Prepares whose handling is looked at on its own: any request id,
\* sequence number, amount and condition with the frame lists of the peer
ProbePrepares ==
  {IlpPrepare(rid, amt, ful, StreamPacket(seq, "Prepare", 0, fr)) :
     rid \in {0, 3}, amt \in {0, MaxMoney}, ful \in BOOLEAN, seq \in {1, 2},
     fr \in PeerFrames}

\* the response handle_incoming_prepare owes to a Prepare that decrypts
ResponseTo(prepare) ==
  IF prepare.fulfillable
  THEN IlpFulfill(prepare.rid,
                  StreamPacket(prepare.sp.sequence, "Fulfill", prepare.amount, <<>>))
  ELSE IlpReject(prepare.rid, "F99",
                 StreamPacket(prepare.sp.sequence, "Reject", prepare.amount, <<>>))

\* C21: handling an incoming Prepare whose data decrypts emits, under the
\* request id of the Prepare, a Fulfill when the Prepare is fulfillable and
\* a Reject of code F99 when it is not, whose STREAM packet has the sequence
\* number of the request, the amount of the Prepare and no frames
PrepareAnswered ==
  (Live /\ internal.state # "Closed") =>
    \A prepare \in ProbePrepares : \A w \in Builds(World) :
      HandleItem(w, prepare).sent = <<ResponseTo(prepare)>>

\* C21, handlings that return: the same for the handlings that do not panic
PrepareAnsweredUnlessPanic ==
  (Live /\ internal.state # "Closed") =>
    \A prepare \in ProbePrepares : \A w \in Builds(World) :
      ~HandleItem(w, prepare).panic
        => HandleItem(w, prepare).sent = <<ResponseTo(prepare)>>

\* C22: handling an incoming Prepare that does not decrypt, fulfillable or
\* not, emits a Reject of code F02 with no data under the request id of the
\* Prepare and returns normally; it leaves the state, the streams, the
\* queues and every stream object as they were
UndecryptableRejected ==
  (Live /\ internal.state # "Closed" /\ outgoing.open) =>
    \A rid \in {0, 3}, amt \in {0, MaxMoney}, ful \in BOOLEAN :
      \A w \in Builds(World) :
        LET w1 == HandleItem(w, IlpPrepare(rid, amt, ful, NoPacket))
        IN /\ w1.sent = <<IlpReject(rid, "F02", NoPacket)>>
           /\ ~w1.panic /\ ~w1.err
           /\ w1.i = internal /\ w1.objs = objs /\ w1.out = outgoing

\* C22 witness: a fulfillable Prepare that does not decrypt has been handled
\* on a connection that has a stream, and the connection is not Closed
UndecryptableHandled ==
  /\ gh.undecrypted
  /\ internal.state # "Closed"
  /\ DOMAIN internal.streams # {}

\* received of the stream with this id, 0 when there is no such stream
ReceivedOf(w, id) ==
  IF id \in DOMAIN w.i.streams THEN w.objs[w.i.streams[id]].received ELSE 0

\* the share of amount A that falls to the frames of stream id
CreditOf(fr, A, id) ==
  LET total == total_money_shares(fr)
      RECURSIVE sum(_)
      sum(k) == IF k = 0 THEN 0
                ELSE sum(k - 1) + (IF fr[k].id = id THEN (A * fr[k].n) \div total ELSE 0)
  IN sum(Len(fr))

\* C23: handling a fulfillable Prepare of amount A with StreamMoney frames
\* of shares s_1..s_n credits stream i with floor(A * s_i / (s_1 + ... +
\* s_n)), which sums to at most A; handling an unfulfillable one changes the
\* received amount of no stream
IncomingMoneyShared ==
  (Live /\ internal.state # "Closed") =>
    \A prepare \in MoneyPrepares : \A w \in Builds(World) :
      LET w1 == HandleItem(w, prepare)
          fr == prepare.sp.frames
      IN /\ ~w1.panic
         /\ \A id \in StreamIds :
              ReceivedOf(w1, id) - ReceivedOf(w, id)
                = IF prepare.fulfillable THEN CreditOf(fr, prepare.amount, id) ELSE 0

\* C23, without overflow: the same for the Prepares whose shares are not all
\* zero and whose sums and products stay below 2^64
IncomingMoneySharedInRange ==
  (Live /\ internal.state # "Closed") =>
    \A prepare \in MoneyPrepares : \A w \in Builds(World) :
      LET w1 == HandleItem(w, prepare)
          fr == prepare.sp.frames
      IN (/\ total_money_shares(fr) \in 1..(U64 - 1)
          /\ \A k \in 1..Len(fr) : fr[k].n * prepare.amount < U64)
         => /\ ~w1.panic
            /\ \A id \in StreamIds :
                 ReceivedOf(w1, id) - ReceivedOf(w, id)
                   = IF prepare.fulfillable THEN CreditOf(fr, prepare.amount, id) ELSE 0

\* C25: with a task recorded in recv_task, the handling of a Prepare that
\* pushes a stream id onto new_streams, or that leaves the state Closed,
\* notifies that task
NewStreamWakesPoller ==
  (Live /\ internal.state # "Closed" /\ internal.recv_task) =>
    \A prepare \in PeerPrepares : \A w \in Builds(World) :
      LET w1 == HandleItem(w, prepare)
      IN (\/ Len(w1.i.new_streams) > Len(internal.new_streams)
          \/ w1.i.state = "Closed")
         => w1.woke

\* C25, the close: the same for the handlings that leave the state Closed
CloseWakesPoller ==
  (Live /\ internal.state # "Closed" /\ internal.recv_task) =>
    \A prepare \in PeerPrepares : \A w \in Builds(World) :
      HandleItem(w, prepare).i.state = "Closed" => HandleItem(w, prepare).woke

\* frame lists of one Prepare in which frames of different kinds follow
\* each other
OrderFrames ==
  {<<StreamData(1), ConnectionClose>>, <<ConnectionClose, StreamData(1)>>,
   <<StreamData(1), StreamClose(1)>>, <<StreamClose(1), StreamData(1)>>,
   <<StreamMoney(1, 1), StreamData(2)>>, <<StreamData(2), StreamMoney(1, 1)>>}

\* C24: handling one Prepare applies the frames of its STREAM packet in the
\* order of the packet: for a frame f before a frame g, every effect of f
\* comes before every effect of g
FramesInDocumentOrder ==
  (Live /\ internal.state # "Closed") =>
    \A fr \in OrderFrames : \A ful \in BOOLEAN : \A w \in Builds(World) :
      LET w1 == HandleItem(w, IlpPrepare(0, MaxMoney, ful,
                                         StreamPacket(1, "Prepare", 0, fr)))
      IN \A a, b \in 1..Len(w1.fx) :
           (w1.fx[a] = fr[1] /\ w1.fx[b] = fr[2]) => a < b

\* C26: once the forwarding from the outgoing channel to the plugin has
\* terminated, the forwarding from the plugin to the incoming channel
\* terminates and the connection eventually observes the end of its incoming
\* channel
BridgeShutdown ==
  incoming.cancelled ~> (incoming.ended /\ gh.end_seen)

\* C26, the bridge alone: once the forwarding to the plugin has terminated,
\* the incoming channel ends, and a connection that is not Closed and whose
\* mutex is not poisoned observes it
BridgeShutdownWhileLive ==
  incoming.cancelled ~>
    (incoming.ended /\ (gh.end_seen \/ internal.state = "Closed" \/ ~Live))

\* C26: the handle is dropped exactly when the forwarding to the plugin
\* terminates, and the receiver of the outgoing channel goes with it
ExitDroppedWithForward ==
  incoming.cancelled => ~outgoing.open

\* the place of a connection state in the order Open, Closing, CloseSent,
\* Closed
StateRank(state) ==
  CASE state = "Open" -> 0
    [] state = "Closing" -> 1
    [] state = "CloseSent" -> 2
    [] OTHER -> 3

\* C27: no step moves the connection state to an earlier one of Open,
\* Closing, CloseSent, Closed
StateOnlyForward ==
  [][StateRank(internal'.state) >= StateRank(internal.state)]_vars

\* C27, without close(): the handlers and try_send never move the connection
\* state to an earlier one
StateForwardButForClose ==
  [][StateRank(internal'.state) >= StateRank(internal.state)
       \/ (internal'.state = "Closing" /\ gh'.close_called)]_vars

\* C28: every stream id waiting in new_streams is a key of streams
NewStreamsAreStreams ==
  \A k \in DOMAIN internal.new_streams :
    internal.new_streams[k] \in DOMAIN internal.streams

\* C29: the stream of every StreamMoney frame of a pending packet is a key
\* of streams
PendingMoneyHasStream ==
  \A rid \in DOMAIN internal.pending_outgoing_packets :
    LET frames == internal.pending_outgoing_packets[rid].packet.frames
    IN \A k \in DOMAIN frames :
         frames[k].t = "StreamMoney" => frames[k].id \in DOMAIN internal.streams

\* the frames of the peer that name a stream in closed_streams, and the
\* StreamClose frames for an id the connection has never seen
StaleFrames ==
  UNION {{StreamMoney(id, 1), StreamData(id), StreamClose(id)} :
           id \in internal.closed_streams}
  \cup {StreamClose(id) :
          id \in StreamIds \ (DOMAIN internal.streams \cup internal.closed_streams)}

StalePrepares ==
  {IlpPrepare(0, IF frame.t = "StreamMoney" THEN MaxMoney ELSE 0, TRUE,
              StreamPacket(1, "Prepare", 0, <<frame>>)) : frame \in StaleFrames}

\* C30: a Prepare whose frame names a stream in closed_streams, or whose
\* StreamClose frame names an id never seen, is handled without a failure,
\* leaves streams and closed_streams as they are and gets its response
StaleFramesHandled ==
  (Live /\ internal.state # "Closed" /\ outgoing.open) =>
    \A prepare \in StalePrepares :
      LET w1 == HandleItem(World, prepare)
      IN /\ ~w1.panic /\ ~w1.err
         /\ w1.i.streams = internal.streams
         /\ w1.i.closed_streams = internal.closed_streams
         /\ w1.sent = <<ResponseTo(prepare)>>

\* C30, the part about the sets: such a Prepare never re-creates the stream
StaleFramesDoNotReopen ==
  (Live /\ internal.state # "Closed" /\ outgoing.open) =>
    \A prepare \in StalePrepares :
      LET w1 == HandleItem(World, prepare)
      IN /\ w1.i.streams = internal.streams
         /\ w1.i.closed_streams = internal.closed_streams
         /\ w1.i.new_streams = internal.new_streams

\* C30: a frame for a stream in closed_streams is at hand
StaleFrameAtHand ==
  /\ Live /\ internal.state # "Closed" /\ outgoing.open
  /\ internal.closed_streams # {}

ClosePrepareAnsweredIfCloseIsNoOp ==
  (Live /\ internal.state # "Closed" /\ outgoing.open /\ ~sink_close_ends) =>
    \A prepare \in {p \in ProbePrepares : p.sp.frames = <<ConnectionClose>>} :
      LET w1 == HandleItem(World, prepare)
      IN /\ ~w1.panic /\ ~w1.err
         /\ Len(w1.sent) = 1
         /\ w1.sent[1].kind \in {"Fulfill", "Reject"}
         /\ w1.sent[1].rid = prepare.rid
         /\ w1.i.state = "Closed"

\* C31, handlings that return: every handling of a Prepare that decrypts
\* and does not panic submits exactly one response with its request id
AnsweredOnceUnlessPanic ==
  (Live /\ internal.state # "Closed" /\ outgoing.open) =>
    \A prepare \in ProbePrepares :
      LET w1 == HandleItem(World, prepare)
      IN ~w1.panic =>
           /\ ~w1.err
           /\ Len(w1.sent) = 1
           /\ w1.sent[1].kind \in {"Fulfill", "Reject"}
           /\ w1.sent[1].rid = prepare.rid
====
